---- MODULE Spec2Model ----
(***************************************************************************)
(* Model of the two notebooks of src/plot_static_vector_potentials.ipynb:  *)
(*   - the vector-potential notebook (lines 1-241): plot_amplitude,        *)
(*     plot_streamlines, plot_fields and its interactive(...) sliders;     *)
(*   - the total-field notebook (lines 243-447): id_to_cartesian,          *)
(*     plot_amplitude, plot_fields and its interactive(...) sliders.       *)
(*                                                                         *)
(* Numbers.  Floating-point values are carried as integers:                *)
(*   - angles in tenths of a degree (the declination slider moves in steps *)
(*     of 0.1 degree);                                                     *)
(*   - orientation slider values in tenths (step 0.1);                     *)
(*   - sines, cosines and unit-vector components in units of 1/Scale;      *)
(*   - linspace samples as numerators over (num - 1).                      *)
(* Arrays are 0-based functions, as numpy arrays are.                      *)
(***************************************************************************)
EXTENDS Integers, Sequences, FiniteSets

VARIABLES
    \* --- orientation converter harness (SpecAngles)
    inclination,   \* input angle, tenths of a degree
    declination,   \* input angle, tenths of a degree
    u,             \* <<>> before the call, then the returned <<ux, uy, uz>>
    \* --- grid / renderer harness (SpecGrid)
    x,             \* first axis (0-based array)
    y,             \* second axis (0-based array)
    z,             \* the fixed third coordinate
    xyz,           \* the flat grid of points, <<>> before construction
    v,             \* the field samples, one per grid point, <<>> before evaluation
    drawn,         \* the 2D arrays handed to the plotting calls, <<>> before rendering
    rt,            \* result of the flatten/reshape round trip, <<>> before it ran
    stage,         \* "axes" -> "grid" -> "sampled" -> "drawn"
    \* --- interaction (Spec)
    vp_w,          \* vector-potential notebook: slider values
    vp_call,       \* keyword arguments of the last plot_fields call
    vp_out,        \* contents of the widget's output area
    vp_runs,       \* number of plot_fields runs
    tf_w,          \* total-field notebook: slider values
    tf_call,       \* arguments and globals read by the last plot_fields call
    tf_out,        \* contents of the widget's output area
    tf_runs,       \* number of plot_fields runs
    nchanges       \* slider changes made so far

angle_vars == <<inclination, declination, u>>
grid_vars == <<x, y, z, xyz, v, drawn, rt, stage>>
ui_vars == <<vp_w, vp_call, vp_out, vp_runs, tf_w, tf_call, tf_out, tf_runs, nchanges>>
vars == <<angle_vars, grid_vars, ui_vars>>

(***************************************************************************)
(* Bounds of the model.                                                    *)
(***************************************************************************)
\* angles tried by the converter harness: every AngleStride tenths of a degree
AngleStride == 15
\* axis lengths tried by the grid harness: 1..MaxN samples per axis
MaxN == 3
\* slider positions tried: within Near steps of a slider's min, max or default
Near == 0
\* slider changes per behaviour
MaxChanges == 2

(***************************************************************************)
(* Fixed-point arithmetic standing in for numpy's floating point.          *)
(***************************************************************************)
Scale == 10 ^ 4

\* np.pi, in units of 1/Scale
PiFx == 31416

\* a / b rounded to the nearest integer (b > 0)
RDiv(a, b) == (2 * a + b) \div (2 * b)

Abs(a) == IF a < 0 THEN -a ELSE a

\* angle/180.*np.pi : tenths of a degree to radians (units of 1/Scale)
ToRadians(t) == RDiv(t * PiFx, 1800)

\* np.sin on the first quadrant, t in 0..900 tenths of a degree: the Taylor
\* polynomial r - r^3/3! + r^5/5! - r^7/7! + r^9/9! in fixed point, each term
\* got from the one before by r^2/((n-1)*n)
SinQuadrant(t) ==
    LET r  == ToRadians(t)
        r2 == RDiv(r * r, Scale)
        t3 == RDiv(r2 * r, 6 * Scale)
        t5 == RDiv(t3 * r2, 20 * Scale)
        t7 == RDiv(t5 * r2, 42 * Scale)
        t9 == RDiv(t7 * r2, 72 * Scale)
    IN  r - t3 + t5 - t7 + t9

\* np.sin(t/180.*np.pi) for any angle t (tenths of a degree)
SinFx(t) ==
    LET r == t % 3600
    IN  IF r <= 900 THEN SinQuadrant(r)
        ELSE IF r <= 1800 THEN SinQuadrant(1800 - r)
        ELSE IF r <= 2700 THEN -SinQuadrant(r - 1800)
        ELSE -SinQuadrant(3600 - r)

\* np.cos(t/180.*np.pi)
CosFx(t) == SinFx(t + 900)

(***************************************************************************)
(* Total-field notebook: id_to_cartesian.                                  *)
(***************************************************************************)
\* mutant: the horizontal components exchanged
id_to_cartesian_swapped(inc, dec) ==
    << RDiv(CosFx(inc) * CosFx(dec), Scale),
       RDiv(CosFx(inc) * SinFx(dec), Scale),
       -SinFx(inc) >>

\* mutant: the vertical component taken from the cosine
id_to_cartesian_cosz(inc, dec) ==
    << RDiv(CosFx(inc) * SinFx(dec), Scale),
       RDiv(CosFx(inc) * CosFx(dec), Scale),
       -CosFx(inc) >>

id_to_cartesian(inc, dec) ==
    LET ux == RDiv(CosFx(inc) * SinFx(dec), Scale)
        uy == RDiv(CosFx(inc) * CosFx(dec), Scale)
        uz == -SinFx(inc)
    IN  <<ux, uy, uz>>

(***************************************************************************)
(* numpy and geoana array helpers, as the notebooks use them.              *)
(***************************************************************************)
\* len(a) of a 0-based array
Size(a) == Cardinality(DOMAIN a)

\* np.linspace(start, stop, num): num evenly spaced samples, end points
\* included; sample k is start + k*(stop-start)/(num-1), kept as its
\* numerator over (num - 1) (over 1 when num = 1)
linspace(start, stop, num) ==
    LET den == IF num > 1 THEN num - 1 ELSE 1
    IN  [k \in 0 .. num - 1 |-> start * den + k * (stop - start)]

\* utils.ndgrid([x, y, zs]): the points of the Cartesian product as rows, the
\* first axis varying fastest
ndgrid(ax, ay, az) ==
    LET n0 == Size(ax)
        n1 == Size(ay)
        n2 == Size(az)
    IN  [k \in 0 .. n0 * n1 * n2 - 1 |->
            << ax[k % n0], ay[(k \div n0) % n1], az[k \div (n0 * n1)] >>]

\* a.reshape(n0, n1, order=...) of a flat array
reshape(a, n0, n1, order) ==
    [i \in 0 .. n0 - 1 |-> [j \in 0 .. n1 - 1 |->
        IF order = "C" THEN a[i * n1 + j] ELSE a[i + n0 * j]]]

\* A.flatten(order=...) of an (n0, n1) array
flatten(A, n0, n1, order) ==
    [k \in 0 .. n0 * n1 - 1 |->
        IF order = "C" THEN A[k \div n1][k % n1] ELSE A[k % n0][k \div n0]]

\* A.shape of a 2D array with at least one row
Shape(A) == << Size(A), Size(A[0]) >>

\* A.T
Transpose(A) ==
    [j \in 0 .. Shape(A)[2] - 1 |-> [i \in 0 .. Shape(A)[1] - 1 |-> A[i][j]]]

\* np.r_[value]: a one-element array
r_(value) == [k \in 0 .. 0 |-> value]

(***************************************************************************)
(* Field samples.  The evaluator is external; a sample is known here only  *)
(* by where it was evaluated.  A vector field over N points is an (N, 3)   *)
(* array whose entry (k, j) carries the identity 3*k + j; a scalar field   *)
(* carries k at index k.                                                   *)
(***************************************************************************)
\* dipole.vector_potential(xyz), loop.vector_potential(xyz)
vector_potential(pts) == [k \in DOMAIN pts |-> << 3 * k, 3 * k + 1, 3 * k + 2 >>]

\* dipole.dot_orientation(dipole.magnetic_flux_density(xyz))
total_field(pts) == [k \in DOMAIN pts |-> k]

\* spatial.vector_magnitude(v): one scalar per row
vector_magnitude(a) == [k \in DOMAIN a |-> a[k][1] \div 3]

\* v[:, j]
Column(a, j) == [k \in DOMAIN a |-> a[k][j + 1]]

\* the grid point an entry of a vector field was evaluated at
PointOf(entry) == entry \div 3

(***************************************************************************)
(* Vector-potential notebook: renderers and grid.                          *)
(***************************************************************************)
\* mutant: the amplitude reshaped in Fortran order
VP_amplitude_grid_F(ax, ay, m) == reshape(m, Size(ax), Size(ay), "F")

\* v.reshape(len(x), len(y), order='C'), the array handed to pcolormesh
VP_amplitude_grid(ax, ay, m) == reshape(m, Size(ax), Size(ay), "C")

VP_plot_amplitude(ax, ay, a) == VP_amplitude_grid(ax, ay, vector_magnitude(a))

\* mutant: the transpose forgotten
VP_plot_streamlines_noT(ax, ay, a) ==
    [vx |-> reshape(Column(a, 0), Size(ax), Size(ay), "F"),
     vy |-> reshape(Column(a, 1), Size(ax), Size(ay), "F")]

\* the arrays vx.T, vy.T handed to streamplot
VP_plot_streamlines(ax, ay, a) ==
    [vx |-> Transpose(reshape(Column(a, 0), Size(ax), Size(ay), "F")),
     vy |-> Transpose(reshape(Column(a, 1), Size(ax), Size(ay), "F"))]

VP_NumSamples == 100
VP_x == linspace(-50, 50, VP_NumSamples)
VP_y == linspace(-50, 50, VP_NumSamples)
VP_z == 0

(***************************************************************************)
(* Total-field notebook: renderer and grid.                                *)
(***************************************************************************)
\* v.reshape(len(x), len(y), order='F'), the array handed to pcolormesh
TF_amplitude_grid(ax, ay, m) == reshape(m, Size(ax), Size(ay), "F")

TF_plot_amplitude(ax, ay, b) == TF_amplitude_grid(ax, ay, b)

TF_NumSamples == 100
TF_x == linspace(-36, 36, TF_NumSamples)
TF_y == linspace(-36, 36, TF_NumSamples)
TF_z == 1

\* mutant: the last sample of the second axis left out
BuildGrid_short(ax, ay, az) ==
    ndgrid(ax, [k \in 0 .. Size(ay) - 2 |-> ay[k]], r_(az))

\* xyz = utils.ndgrid([x, y, np.r_[z]]) of both plot_fields
BuildGrid(ax, ay, az) == ndgrid(ax, ay, r_(az))

(***************************************************************************)
(* Idle values of the variables a specification does not use.              *)
(***************************************************************************)
AnglesIdle == inclination = 0 /\ declination = 0 /\ u = <<>>

GridIdle ==
    /\ x = <<>> /\ y = <<>> /\ z = 0
    /\ xyz = <<>> /\ v = <<>> /\ drawn = <<>> /\ rt = <<>>
    /\ stage = "idle"

UiIdle ==
    /\ vp_w = <<>> /\ vp_call = <<>> /\ vp_out = <<>> /\ vp_runs = 0
    /\ tf_w = <<>> /\ tf_call = <<>> /\ tf_out = <<>> /\ tf_runs = 0
    /\ nchanges = 0

(***************************************************************************)
(* SpecAngles: id_to_cartesian applied to inclination/declination pairs,   *)
(* inside and outside the input convention.                                *)
(***************************************************************************)
Inclinations == { AngleStride * k : k \in -(900 \div AngleStride) .. (900 \div AngleStride) }
Declinations == { AngleStride * k : k \in 0 .. (3600 \div AngleStride) }

InitAngles ==
    /\ inclination \in Inclinations
    /\ declination \in Declinations
    /\ u = <<>>
    /\ GridIdle /\ UiIdle

Convert ==
    /\ u = <<>>
    /\ u' = id_to_cartesian(inclination, declination)
    /\ UNCHANGED <<inclination, declination, grid_vars, ui_vars>>

NextAngles == Convert

SpecAngles == InitAngles /\ [][NextAngles]_vars

(***************************************************************************)
(* SpecGrid: grid construction, evaluation and the renderers applied to    *)
(* axes of 1..MaxN samples and to the notebooks' own 100-sample axes.      *)
(***************************************************************************)
AxisChoices ==
    { linspace(-50, 50, n) : n \in 1 .. MaxN } \cup { linspace(-36, 36, n) : n \in 1 .. MaxN }

\* a synthetic 2D grid of shape (n0, n1) whose cells are all different
Synthetic(n0, n1) == [i \in 0 .. n0 - 1 |-> [j \in 0 .. n1 - 1 |-> <<i, j>>]]

InitGrid ==
    /\ \/ x \in AxisChoices /\ y \in AxisChoices /\ z \in {VP_z, TF_z}
       \/ x = VP_x /\ y = VP_y /\ z = VP_z
       \/ x = TF_x /\ y = TF_y /\ z = TF_z
    /\ xyz = <<>> /\ v = <<>> /\ drawn = <<>> /\ rt = <<>>
    /\ stage = "axes"
    /\ AnglesIdle /\ UiIdle

GridConstruct ==
    /\ stage = "axes"
    /\ xyz' = BuildGrid(x, y, z)
    /\ stage' = "grid"
    /\ UNCHANGED <<x, y, z, v, drawn, rt, angle_vars, ui_vars>>

\* a_dipole = dipole.vector_potential(xyz); b_total = dot_orientation(...)
Evaluate ==
    /\ stage = "grid"
    /\ v' = [a |-> vector_potential(xyz), b |-> total_field(xyz)]
    /\ stage' = "sampled"
    /\ UNCHANGED <<x, y, z, xyz, drawn, rt, angle_vars, ui_vars>>

Render ==
    /\ stage = "sampled"
    /\ drawn' = [vp_amplitude   |-> VP_plot_amplitude(x, y, v.a),
                 vp_streamlines |-> VP_plot_streamlines(x, y, v.a),
                 tf_amplitude   |-> TF_plot_amplitude(x, y, v.b)]
    /\ stage' = "drawn"
    /\ UNCHANGED <<x, y, z, xyz, v, rt, angle_vars, ui_vars>>

\* a synthetic (len(x), len(y)) grid flattened in each renderer's order and
\* handed to that renderer's reshape
RoundTrip ==
    /\ stage = "axes"
    /\ rt = <<>>
    /\ LET n0 == Size(x)
           n1 == Size(y)
           G  == Synthetic(n0, n1)
       IN  rt' = [G  |-> G,
                  vp |-> VP_amplitude_grid(x, y, flatten(G, n0, n1, "C")),
                  tf |-> TF_amplitude_grid(x, y, flatten(G, n0, n1, "F"))]
    /\ UNCHANGED <<x, y, z, xyz, v, drawn, stage, angle_vars, ui_vars>>

NextGrid == GridConstruct \/ Evaluate \/ Render \/ RoundTrip

SpecGrid == InitGrid /\ [][NextGrid]_vars

(***************************************************************************)
(* Interaction: the sliders interactive(plot_fields, ...) builds, and the  *)
(* run it makes of plot_fields on every value change.                      *)
(***************************************************************************)
\* mutant: the radius slider starting at 0
VP_sliders_radius0 ==
    [moment        |-> [min |-> -1,  max |-> 3,  step |-> 1, value |-> 1],
     current       |-> [min |-> -1,  max |-> 3,  step |-> 1, value |-> 1],
     radius        |-> [min |-> 0,   max |-> 40, step |-> 1, value |-> 20],
     location_x    |-> [min |-> -40, max |-> 40, step |-> 1, value |-> 0],
     location_y    |-> [min |-> -40, max |-> 40, step |-> 1, value |-> 0],
     location_z    |-> [min |-> -40, max |-> 40, step |-> 1, value |-> 0],
     orientation_x |-> [min |-> 0,   max |-> 10, step |-> 1, value |-> 0],
     orientation_y |-> [min |-> 0,   max |-> 10, step |-> 1, value |-> 0],
     orientation_z |-> [min |-> 0,   max |-> 10, step |-> 1, value |-> 10]]

\* The sliders of the vector-potential notebook.  moment and current have no
\* abbreviation: an integer default d > 0 gives IntSlider(min=-d, max=3*d,
\* value=d).  The others come from their (min, max, step) tuples and take the
\* function's default as value.  orientation_* are in tenths.
VP_sliders ==
    [moment        |-> [min |-> -1,  max |-> 3,  step |-> 1, value |-> 1],
     current       |-> [min |-> -1,  max |-> 3,  step |-> 1, value |-> 1],
     radius        |-> [min |-> 1,   max |-> 40, step |-> 1, value |-> 20],
     location_x    |-> [min |-> -40, max |-> 40, step |-> 1, value |-> 0],
     location_y    |-> [min |-> -40, max |-> 40, step |-> 1, value |-> 0],
     location_z    |-> [min |-> -40, max |-> 40, step |-> 1, value |-> 0],
     orientation_x |-> [min |-> 0,   max |-> 10, step |-> 1, value |-> 0],
     orientation_y |-> [min |-> 0,   max |-> 10, step |-> 1, value |-> 0],
     orientation_z |-> [min |-> 0,   max |-> 10, step |-> 1, value |-> 10]]

\* The sliders of the total-field notebook, in tenths of a degree:
\* inclination=(0.,67.,1.) starts at 33.0, declination=(0., 90.) has the
\* default step 0.1 and starts at the middle of its range.
TF_sliders ==
    [inclination |-> [min |-> 0, max |-> 670, step |-> 10, value |-> 330],
     declination |-> [min |-> 0, max |-> 900, step |-> 1,  value |-> 450]]

\* location = np.r_[0., 0., -10.] and moment = 1, globals of the total-field notebook
TF_location == <<0, 0, -10>>
TF_moment == 1

\* every position of a slider
SliderValues(s) == { s.min + k * s.step : k \in 0 .. ((s.max - s.min) \div s.step) }

\* the positions the model moves a slider to
Picks(s) ==
    { val \in SliderValues(s) :
        \E a \in {s.min, s.max, s.value} : Abs(val - a) <= Near * s.step }

Defaults(sliders) == [c \in DOMAIN sliders |-> sliders[c].value]

\* mutant: the other sliders fall back to their initial values
Observe_reset(w, c, val) ==
    [d \in DOMAIN w |->
        IF d = c THEN val
        ELSE IF "moment" \in DOMAIN w THEN VP_sliders[d].value ELSE TF_sliders[d].value]

\* a slider's value changes; interactive collects the keyword arguments of
\* the run from every slider's current value
Observe(w, c, val) == [w EXCEPT ![c] = val]

\* mutant: the new figure shown below the old ones
Update_append(out, fig) == Append(out, fig)

\* interactive's update: the output area is cleared and the run's figure shown
Update(out, fig) == <<fig>>

\* plot_fields of the vector-potential notebook: the figure it shows, known by
\* the sources it was computed from and the shape of the sampled grid
VP_plot_fields(kw) ==
    LET location    == <<kw.location_x, kw.location_y, kw.location_z>>
        orientation == <<kw.orientation_x, kw.orientation_y, kw.orientation_z>>
    IN  [dipole |-> [location |-> location, orientation |-> orientation,
                     moment |-> kw.moment],
         loop   |-> [location |-> location, orientation |-> orientation,
                     current |-> kw.current, radius |-> kw.radius],
         grid   |-> <<VP_NumSamples, VP_NumSamples>>]

\* plot_fields of the total-field notebook
TF_plot_fields(kw) ==
    LET orientation == id_to_cartesian(kw.inclination, kw.declination)
    IN  [dipole |-> [location |-> TF_location, orientation |-> orientation,
                     moment |-> TF_moment],
         pole   |-> [location |-> TF_location, orientation |-> orientation,
                     moment |-> TF_moment],
         grid   |-> <<TF_NumSamples, TF_NumSamples>>]

\* what a run of the total-field plot_fields reads: its arguments and two globals
TF_reads(w) ==
    [inclination |-> w.inclination, declination |-> w.declination,
     location |-> TF_location, moment |-> TF_moment]

\* the state once both widgets are displayed: each ran plot_fields once
Init ==
    /\ vp_w = Defaults(VP_sliders)
    /\ vp_call = vp_w
    /\ vp_out = Update(<<>>, VP_plot_fields(vp_call))
    /\ vp_runs = 1
    /\ tf_w = Defaults(TF_sliders)
    /\ tf_call = TF_reads(tf_w)
    /\ tf_out = Update(<<>>, TF_plot_fields(tf_call))
    /\ tf_runs = 1
    /\ nchanges = 0
    /\ AnglesIdle /\ GridIdle

VPChange(c, val) ==
    /\ nchanges < MaxChanges
    /\ val # vp_w[c]
    /\ vp_w' = Observe(vp_w, c, val)
    /\ vp_call' = vp_w'
    /\ vp_out' = Update(vp_out, VP_plot_fields(vp_call'))
    /\ vp_runs' = vp_runs + 1
    /\ nchanges' = nchanges + 1
    /\ UNCHANGED <<tf_w, tf_call, tf_out, tf_runs, angle_vars, grid_vars>>

TFChange(c, val) ==
    /\ nchanges < MaxChanges
    /\ val # tf_w[c]
    /\ tf_w' = Observe(tf_w, c, val)
    /\ tf_call' = TF_reads(tf_w')
    /\ tf_out' = Update(tf_out, TF_plot_fields(tf_call'))
    /\ tf_runs' = tf_runs + 1
    /\ nchanges' = nchanges + 1
    /\ UNCHANGED <<vp_w, vp_call, vp_out, vp_runs, angle_vars, grid_vars>>

Next ==
    \/ \E c \in DOMAIN VP_sliders : \E val \in Picks(VP_sliders[c]) : VPChange(c, val)
    \/ \E c \in DOMAIN TF_sliders : \E val \in Picks(TF_sliders[c]) : TFChange(c, val)

Spec == Init /\ [][Next]_vars

(***************************************************************************)
(* Properties.                                                             *)
(***************************************************************************)
\* tolerance on the squared norm, and on one component, in fixed point
NormTol == Scale * 10
CompTol == Scale \div 2000

Near3(a, b) == \A i \in 1 .. 3 : Abs(a[i] - b[i]) <= CompTol

\* C1: for every inclination/declination pair, the vector id_to_cartesian
\* returns has norm 1: ux^2 + uy^2 + uz^2 = 1 within the tolerance of the
\* arithmetic (here NormTol / Scale^2 = 0.001).
C1_UnitNorm ==
    u # <<>> =>
        Abs(u[1] * u[1] + u[2] * u[2] + u[3] * u[3] - Scale * Scale) <= NormTol

C1_Witness ==
    /\ u # <<>>
    /\ inclination = 450 /\ declination = 1200
    /\ u[1] > 0 /\ u[2] < 0 /\ u[3] < 0

\* C2: id_to_cartesian maps the cardinal angles to the axes of the (east,
\* north, up-negative) convention: inclination 0, declination 0 gives
\* (0, 1, 0); inclination 90, declination 0 gives (0, 0, -1); and, from
\* ux = cos(inc)*sin(dec), inclination 0, declination 90 gives (1, 0, 0).
C2_CardinalAngles ==
    u # <<>> =>
        /\ (inclination = 0 /\ declination = 0) => Near3(u, <<0, Scale, 0>>)
        /\ (inclination = 900 /\ declination = 0) => Near3(u, <<0, 0, -Scale>>)
        /\ (inclination = 0 /\ declination = 900) => Near3(u, <<Scale, 0, 0>>)

C2_Witness ==
    /\ u # <<>>
    /\ inclination = 900 /\ declination = 0
    /\ u[3] < 0

\* C3: the grid built from axes x and y and one third value z has exactly
\* len(x)*len(y) points, holds every pair (x[i], y[j]) exactly once, and
\* every point has third coordinate z; for the vector-potential notebook's
\* axes (100 samples over [-50, 50], z = 0) that is 10,000 points, all with
\* third coordinate 0.
C3_GridPoints ==
    stage \in {"grid", "sampled", "drawn"} =>
        LET pts == { xyz[k] : k \in DOMAIN xyz }
        IN  /\ Size(xyz) = Size(x) * Size(y)
            /\ pts = { <<x[i], y[j], z>> : i \in DOMAIN x, j \in DOMAIN y }
            /\ Cardinality(pts) = Size(xyz)
            /\ \A k \in DOMAIN xyz : xyz[k][3] = z
            /\ (x = linspace(-50, 50, 100) /\ y = linspace(-50, 50, 100) /\ z = 0)
                  => (Size(xyz) = 10000 /\ \A k \in DOMAIN xyz : xyz[k][3] = 0)

C3_Witness ==
    /\ stage = "grid"
    /\ x = linspace(-50, 50, 100) /\ y = linspace(-50, 50, 100) /\ z = 0
    /\ Size(xyz) = 10000

\* the grid point each cell of a 2D array of vector-field entries was evaluated at
PointArray(A) == [r \in DOMAIN A |-> [c \in DOMAIN A[r] |-> PointOf(A[r][c])]]

\* the 2D array P of grid-point indices, drawn with x horizontal and y
\* vertical, holds at row r and column c the sample evaluated at (x[c], y[r])
MatchesGrid(P) ==
    /\ Shape(P) = << Size(y), Size(x) >>
    /\ \A r \in DOMAIN y : \A c \in DOMAIN x : xyz[P[r][c]] = << x[c], y[r], z >>

\* C4: in every renderer the array handed to the plotting call holds at row r
\* and column c the sample evaluated at (x[c], y[r]) (the grid being flattened
\* first axis fastest), on the square grids the notebooks use.
C4_ReshapeMatchesGrid ==
    (stage = "drawn" /\ Size(x) = Size(y)) =>
        /\ MatchesGrid(drawn.vp_amplitude)
        /\ MatchesGrid(PointArray(drawn.vp_streamlines.vx))
        /\ MatchesGrid(PointArray(drawn.vp_streamlines.vy))
        /\ MatchesGrid(drawn.tf_amplitude)

\* the vector-potential renderers alone (what of C4 the code does satisfy)
C4_VectorPotentialOnly ==
    (stage = "drawn" /\ Size(x) = Size(y)) =>
        /\ MatchesGrid(drawn.vp_amplitude)
        /\ MatchesGrid(PointArray(drawn.vp_streamlines.vx))
        /\ MatchesGrid(PointArray(drawn.vp_streamlines.vy))

\* C5: a synthetic grid of shape (len(x), len(y)), flattened in C order and
\* reshaped by the vector-potential plot_amplitude, or flattened in F order
\* and reshaped by the total-field plot_amplitude, comes back cell for cell.
C5_ReshapeRoundTrip ==
    DOMAIN rt # {} => (rt.vp = rt.G /\ rt.tf = rt.G)

C5_Witness ==
    /\ DOMAIN rt # {}
    /\ Size(x) = 2 /\ Size(y) = 3
    /\ rt.vp[1][2] = <<1, 2>>

\* C6: in every run of plot_fields the orientation handed to the source
\* constructors is not the zero vector, in both notebooks.
C6_OrientationNonZero ==
    /\ vp_runs > 0 =>
          VP_plot_fields(vp_call).dipole.orientation # <<0, 0, 0>>
    /\ tf_runs > 0 =>
          TF_plot_fields(tf_call).dipole.orientation # <<0, 0, 0>>

\* C7: a change of one slider runs plot_fields with that slider's new value
\* and every other argument as in the run before; in the total-field
\* notebook location and moment are as before too.
C7_FrameOfChange ==
    [][ /\ vp_runs' # vp_runs =>
              \E c \in DOMAIN VP_sliders :
                  /\ vp_w'[c] # vp_w[c]
                  /\ vp_call'[c] = vp_w'[c]
                  /\ \A d \in DOMAIN vp_call \ {c} : vp_call'[d] = vp_call[d]
        /\ tf_runs' # tf_runs =>
              \E c \in DOMAIN TF_sliders :
                  /\ tf_w'[c] # tf_w[c]
                  /\ tf_call'[c] = tf_w'[c]
                  /\ \A d \in DOMAIN tf_call \ {c} : tf_call'[d] = tf_call[d]
      ]_vars

C7_Witness ==
    /\ vp_runs = 3
    /\ vp_call.radius # VP_sliders.radius.value
    /\ vp_call.orientation_x # VP_sliders.orientation_x.value

C9_ControlsInRange ==
    vp_runs > 0 =>
        /\ vp_call.moment \in -1 .. 3
        /\ vp_call.radius \in 1 .. 40
        /\ tf_call.inclination \in { 10 * k : k \in 0 .. 67 }
        /\ tf_call.declination \in 0 .. 900
        /\ tf_call.inclination \in 0 .. 900
        /\ tf_call.declination \in 0 .. 3599

C9_Witness ==
    /\ vp_runs > 0
    /\ vp_call.radius = 40
    /\ tf_call.inclination = 670

\* C10: the amplitude and streamline arrays of the vector-potential notebook
\* agree cell by cell on a square grid, both taking cell (r, c) from the flat
\* sample c + len(x)*r; on a grid that is not square their shapes differ,
\* (len(x), len(y)) against (len(y), len(x)).
C10_RenderersAgree ==
    stage = "drawn" =>
        LET nx == Size(x)
            ny == Size(y)
            A  == drawn.vp_amplitude
            SX == drawn.vp_streamlines.vx
            SY == drawn.vp_streamlines.vy
        IN  /\ nx = ny =>
                  /\ Shape(A) = Shape(SX) /\ Shape(A) = Shape(SY)
                  /\ \A r \in 0 .. nx - 1 : \A c \in 0 .. nx - 1 :
                        /\ A[r][c] = c + nx * r
                        /\ PointOf(SX[r][c]) = c + nx * r
                        /\ PointOf(SY[r][c]) = c + nx * r
            /\ nx # ny =>
                  /\ Shape(A) = <<nx, ny>>
                  /\ Shape(SX) = <<ny, nx>> /\ Shape(SY) = <<ny, nx>>
                  /\ Shape(A) # Shape(SX)

C10_Witness ==
    /\ stage = "drawn"
    /\ Size(x) = 100 /\ Size(y) = 100
    /\ drawn.vp_amplitude[1][0] = 100
    /\ PointOf(drawn.vp_streamlines.vx[1][0]) = 100

====
